---- MODULE Spec2Model ----
(***************************************************************************)
(* Model of the stream backend of the terminal layer (src/tty/stream.rs):  *)
(* StreamWriter (the Renderer), StreamReader (the input event reader) and  *)
(* StreamExternalPrinter, together with the byte sinks they write to.      *)
(*                                                                         *)
(* Bytes are modelled as one-character strings ("ESC" is 0x1b, "LF" is     *)
(* 0x0a, "BEL" is 0x07); input bytes of the reader are modelled as         *)
(* numbers 0..255 because the reader decodes them.                         *)
(***************************************************************************)
EXTENDS Integers, Sequences, FiniteSets, TLC

VARIABLES
    cols,        \* StreamWriter.cols
    rows,        \* StreamWriter.rows
    bell_style,  \* StreamWriter.bell_style
    buffer,      \* StreamWriter.buffer (the String refresh_line composes into)
    stream,      \* bytes accepted by StreamWriter.stream (BufWriter) and not yet delivered
    out,         \* bytes delivered to the shared output destination (stdout)
    rpc,         \* position of the renderer thread: "idle" or "flush"
    rcall,       \* the renderer's current / last call and its arguments
    rres,        \* result of the renderer's last call: "none", "Ok", "Err"
    nops,        \* number of renderer calls made so far (the message number)
    ppc,         \* position of the external printer thread: "idle", "write", "flush"
    prem,        \* bytes of the printer's message not yet accepted by its writer
    pres,        \* result of the printer's last print
    nprints,     \* number of print calls made so far
    input,       \* bytes left in the reader's input stream
    fed,         \* the bytes the input stream held at the start
    events,      \* results of the wait_for_input calls so far
    cp           \* last calculate_position call: arguments and result

vars == <<cols, rows, bell_style, buffer, stream, out, rpc, rcall, rres, nops,
          ppc, prem, pres, nprints, input, fed, events, cp>>

rendererVars == <<cols, rows, bell_style, buffer, stream, rpc, rcall, rres, nops>>
printerVars  == <<ppc, prem, pres, nprints>>
readerVars   == <<input, fed, events>>

----------------------------------------------------------------------------
(* Bounds of the model *)

MaxCount  == 1     \* rows of a layout and lengths given to clear range over 0..MaxCount
MaxReads  == 3     \* wait_for_input calls per behaviour
MaxOps    == 1     \* renderer calls per behaviour
MaxPrints == 1     \* print calls per behaviour
MaxInput  == 130   \* length of the input stream of the reader
MaxLen    == 3     \* grapheme clusters in a text given to calculate_position
MaxCols   == 3     \* terminal widths tried by calculate_position
MaxRow    == 2     \* start rows tried by calculate_position

(* Program constants *)

BufSize     == 128   \* wait_for_input's read chunk
ReplacementChar == 65533   \* U+FFFD, what a lossy decoding puts for an invalid byte
FixedCols   == 80    \* update_size
FixedRows   == 24    \* update_size

----------------------------------------------------------------------------
(* Helpers on sequences *)

Last(s) == s[Len(s)]

Drop(s, n) == SubSeq(s, n + 1, Len(s))

Take(s, n) == SubSeq(s, 1, n)

RECURSIVE Repeat(_, _)
Repeat(s, n) == IF n = 0 THEN <<>> ELSE s \o Repeat(s, n - 1)

RECURSIVE Filter(_, _)
Filter(s, m) ==
    IF s = <<>> THEN <<>>
    ELSE IF Head(s).m = m THEN <<Head(s).b>> \o Filter(Tail(s), m)
         ELSE Filter(Tail(s), m)

Tag(bytes, m) == [i \in 1..Len(bytes) |-> [b |-> bytes[i], m |-> m]]

----------------------------------------------------------------------------
(* Position model: StreamWriter::calculate_position *)

Newline == "\n"

Clusters == {Newline, "a", "W", "z"}

\* grapheme_cluster_mode.width(c): "a" is a narrow cluster, "W" a wide one,
\* "z" a zero-width one
Width(c) == CASE c = "a" -> 1
              [] c = "W" -> 2
              [] c = "z" -> 0
              [] OTHER   -> 0

StepClusterNoRow(pos, c) ==
    IF c = Newline
    THEN [row |-> pos.row + 1, col |-> 0]
    ELSE [row |-> pos.row, col |-> Width(c)]

\* body of the loop over s.graphemes(true)
StepCluster(pos, c) ==
    IF c = Newline
    THEN LET p1 == [pos EXCEPT !.col = 0]
         IN  [p1 EXCEPT !.row = p1.row + 1]
    ELSE LET cw == Width(c)
             p1 == [pos EXCEPT !.col = pos.col + cw]
             p2 == [p1 EXCEPT !.row = p1.row + 1]
         IN  [p2 EXCEPT !.col = cw]

FinalWrapNever(pos, width) == pos

\* the check after the loop: if pos.col == self.cols { ... }
FinalWrap(pos, width) ==
    IF pos.col = width
    THEN [row |-> pos.row + 1, col |-> 0]
    ELSE pos

RECURSIVE Graphemes(_, _)
Graphemes(pos, s) ==
    IF s = <<>> THEN pos
    ELSE Graphemes(StepCluster(pos, Head(s)), Tail(s))

calculate_position(s, orig, width) == FinalWrap(Graphemes(orig, s), width)

RECURSIVE TextsUpTo(_)
TextsUpTo(n) ==
    IF n = 0 THEN {<<>>}
    ELSE LET shorter == TextsUpTo(n - 1)
         IN  shorter \cup {Append(t, c) : t \in {u \in shorter : Len(u) = n - 1}, c \in Clusters}

----------------------------------------------------------------------------
(* Escape sequences: the commands the Renderer composes *)

ESC == "ESC"

Digits == <<"0", "1", "2", "3", "4", "5", "6", "7", "8", "9">>

\* format!("{}", n) of an unsigned number: its decimal digits
RECURSIVE Fmt(_)
Fmt(n) == IF n < 10 THEN <<Digits[n + 1]>>
          ELSE Fmt(n \div 10) \o <<Digits[(n % 10) + 1]>>

Csi(n, letter) == <<ESC, "[">> \o Fmt(n) \o <<letter>>

MoveCursorCmdColFirst(old, new) ==
    (IF new.col > old.col THEN Csi(new.col - old.col, "C")
                          ELSE Csi(old.col - new.col, "D"))
    \o
    (IF new.row > old.row THEN Csi(new.row - old.row, "B")
                          ELSE Csi(old.row - new.row, "A"))

\* cursor_cmd of move_cursor
MoveCursorCmd(old, new) ==
    (IF new.row > old.row THEN Csi(new.row - old.row, "B")
                          ELSE Csi(old.row - new.row, "A"))
    \o
    (IF new.col > old.col THEN Csi(new.col - old.col, "C")
                          ELSE Csi(old.col - new.col, "D"))

\* clear_cmd of clear: one space for each of 0..length
ClearCmd(length) == Repeat(<<" ">>, length)

\* clear_cmd of clear_rows: one "\x1b[K\n" for each of 0..=layout.end.row
ClearRowsCmd(layout) == Repeat(<<ESC, "[", "K", "LF">>, layout.end.row + 1)

ClearScreenCmd == <<ESC, "[", "H", ESC, "[", "J">>

LeftmostCmd == <<ESC, "[", "H">>

BellCmd == <<"BEL">>

\* self.buffer after refresh_line composed it: prompt, then the hint if any
RefreshBuffer(prompt, hint) ==
    IF hint.some THEN prompt \o hint.text ELSE prompt

----------------------------------------------------------------------------
(* Inputs of the renderer and the printer *)

\* rows and columns of the cursor positions given to move_cursor: distances
\* of one and of two digits, in both directions
RowCoords == {0, 2, 12}

ColCoords == {0, 5, 12}

Positions == [row : RowCoords, col : ColCoords]

Layouts == {[start |-> [row |-> sr, col |-> 0], end |-> [row |-> er, col |-> 0]] :
               sr \in 0..MaxCount, er \in 0..MaxCount}

Prompts == {<<>>, <<">">>}

Hints == {[some |-> FALSE, text |-> <<>>], [some |-> TRUE, text |-> <<"h">>]}

BellStyles == {"None", "Audible", "Visible"}

PrintMsgs == {<<"x", "y">>}

\* what get_win_size(out) can report to StreamWriter::new
WinSizes == {<<80, 24>>, <<132, 43>>}

NoCall == [op |-> "none", args |-> <<>>]

NoCp == [called |-> FALSE, s |-> <<>>, orig |-> [row |-> 0, col |-> 0],
         res |-> [row |-> 0, col |-> 0]]

----------------------------------------------------------------------------
(* The Renderer: StreamWriter *)

get_columns == cols

get_rows == rows

\* rcall of a new call
Call(op, args) == [op |-> op, args |-> args]

\* stream.write_all(bytes) on the buffered stream: either every byte is
\* accepted, or a write reports zero bytes / an error after a prefix was
\* accepted.  next is where the caller goes on success.
StreamWriteAll(bytes, next) ==
    \/ /\ stream' = stream \o Tag(bytes, nops + 1)
       /\ rpc' = next
       /\ rres' = IF next = "idle" THEN "Ok" ELSE "none"
    \/ /\ bytes # <<>>
       /\ \E k \in 0..(Len(bytes) - 1) :
              stream' = stream \o Tag(Take(bytes, k), nops + 1)
       /\ rpc' = "idle"
       /\ rres' = "Err"

\* write_and_flush(buf): stream.write_all, then stream.flush (the Flush actions)
write_and_flush(bytes) == StreamWriteAll(bytes, "flush")

\* write_all(&mut self.stream, buf): the write loop alone, no flush
write_all(bytes) == StreamWriteAll(bytes, "idle")

\* the editing loop makes its next call; an I/O error ended the session
RendererIdle == rpc = "idle" /\ rres # "Err" /\ nops < MaxOps

RendererFrame == UNCHANGED <<out, printerVars, readerVars, cp>>

move_cursor(old, new) ==
    /\ RendererIdle
    /\ rcall' = Call("move_cursor", [old |-> old, new |-> new])
    /\ nops' = nops + 1
    /\ write_and_flush(MoveCursorCmd(old, new))
    /\ UNCHANGED <<cols, rows, bell_style, buffer>>
    /\ RendererFrame

refresh_line(prompt, hint) ==
    /\ RendererIdle
    /\ rcall' = Call("refresh_line", [prompt |-> prompt, hint |-> hint])
    /\ nops' = nops + 1
    /\ buffer' = RefreshBuffer(prompt, hint)
    /\ write_all(buffer')
    /\ UNCHANGED <<cols, rows, bell_style>>
    /\ RendererFrame

clear(length, pos) ==
    /\ RendererIdle
    /\ rcall' = Call("clear", [length |-> length, pos |-> pos])
    /\ nops' = nops + 1
    /\ write_and_flush(ClearCmd(length))
    /\ UNCHANGED <<cols, rows, bell_style, buffer>>
    /\ RendererFrame

clear_screen ==
    /\ RendererIdle
    /\ rcall' = Call("clear_screen", <<>>)
    /\ nops' = nops + 1
    /\ write_and_flush(ClearScreenCmd)
    /\ UNCHANGED <<cols, rows, bell_style, buffer>>
    /\ RendererFrame

clear_rows(layout) ==
    /\ RendererIdle
    /\ rcall' = Call("clear_rows", [layout |-> layout])
    /\ nops' = nops + 1
    /\ write_and_flush(ClearRowsCmd(layout))
    /\ UNCHANGED <<cols, rows, bell_style, buffer>>
    /\ RendererFrame

beep ==
    /\ RendererIdle
    /\ rcall' = Call("beep", <<>>)
    /\ nops' = nops + 1
    /\ IF bell_style = "Audible"
       THEN write_and_flush(BellCmd)
       ELSE /\ rpc' = "idle"
            /\ rres' = "Ok"
            /\ UNCHANGED stream
    /\ UNCHANGED <<cols, rows, bell_style, buffer>>
    /\ RendererFrame

move_cursor_at_leftmost ==
    /\ RendererIdle
    /\ rcall' = Call("move_cursor_at_leftmost", <<>>)
    /\ nops' = nops + 1
    /\ write_and_flush(LeftmostCmd)
    /\ UNCHANGED <<cols, rows, bell_style, buffer>>
    /\ RendererFrame

update_size ==
    /\ RendererIdle
    /\ rcall' = Call("update_size", <<>>)
    /\ nops' = nops + 1
    /\ cols' = FixedCols
    /\ rows' = FixedRows
    /\ rres' = "Ok"
    /\ UNCHANGED <<rpc, bell_style, buffer, stream>>
    /\ RendererFrame

\* stream.flush(): the buffered bytes go to the destination, a write at a
\* time; a write may take only part of them
FlushWrite ==
    /\ rpc = "flush"
    /\ stream # <<>>
    /\ \E n \in 1..Len(stream) :
          /\ out' = out \o Take(stream, n)
          /\ stream' = Drop(stream, n)
    /\ UNCHANGED <<cols, rows, bell_style, buffer, rpc, rcall, rres, nops>>
    /\ UNCHANGED <<printerVars, readerVars, cp>>

\* stream.flush() returns Ok once nothing is left in the buffer
FlushDone ==
    /\ rpc = "flush"
    /\ stream = <<>>
    /\ rpc' = "idle"
    /\ rres' = "Ok"
    /\ UNCHANGED <<cols, rows, bell_style, buffer, stream, rcall, nops>>
    /\ UNCHANGED <<out, printerVars, readerVars, cp>>

\* a write of stream.flush() fails: the error is returned by the call
FlushFail ==
    /\ rpc = "flush"
    /\ stream # <<>>
    /\ rpc' = "idle"
    /\ rres' = "Err"
    /\ UNCHANGED <<cols, rows, bell_style, buffer, stream, rcall, nops>>
    /\ UNCHANGED <<out, printerVars, readerVars, cp>>

----------------------------------------------------------------------------
(* The External Printer: StreamExternalPrinter::print *)

PrinterFrame == UNCHANGED <<rendererVars, readerVars, cp>>

\* print(msg) is called: writer.write_all(msg) starts
print(msg) ==
    /\ ppc = "idle"
    /\ nprints < MaxPrints
    /\ nprints' = nprints + 1
    /\ prem' = Tag(msg, 0 - nprints')
    /\ ppc' = "write"
    /\ pres' = "none"
    /\ UNCHANGED out
    /\ PrinterFrame

\* one write of writer.write_all: the destination takes all or part of the rest
PrintWrite ==
    /\ ppc = "write"
    /\ prem # <<>>
    /\ \E n \in 1..Len(prem) :
          /\ out' = out \o Take(prem, n)
          /\ prem' = Drop(prem, n)
    /\ UNCHANGED <<ppc, pres, nprints>>
    /\ PrinterFrame

\* a write of writer.write_all fails or reports zero bytes
PrintFail ==
    /\ ppc = "write"
    /\ prem # <<>>
    /\ ppc' = "idle"
    /\ pres' = "Err"
    /\ UNCHANGED <<prem, nprints, out>>
    /\ PrinterFrame

\* writer.write_all is done; writer.flush() and return
PrintFlush ==
    /\ ppc = "write"
    /\ prem = <<>>
    /\ ppc' = "idle"
    /\ pres' = "Ok"
    /\ UNCHANGED <<prem, nprints, out>>
    /\ PrinterFrame

----------------------------------------------------------------------------
(* The Input Event Reader: StreamReader *)

Min(a, b) == IF a < b THEN a ELSE b

\* [0u8; n]
Zeros(n) == [i \in 1..n |-> 0]

\* String::from_utf8_lossy over ASCII bytes and lone invalid bytes: an ASCII
\* byte is its own character (NUL included), an invalid byte becomes U+FFFD
from_utf8_lossy(bytes) ==
    [i \in 1..Len(bytes) |-> IF bytes[i] < 128 THEN bytes[i] ELSE ReplacementChar]

\* the value wait_for_input builds from its buffer after a read of n bytes
ReadResult(buf, n) ==
    IF n = 0
    THEN [kind |-> "Eof", text |-> <<>>, n |-> n]
    ELSE [kind |-> "ExternalPrint", text |-> from_utf8_lossy(buf), n |-> n]

\* one read into the zeroed chunk: the stream hands over what it holds, up to
\* the size of the chunk
wait_for_input ==
    /\ Len(events) < MaxReads
    /\ LET n   == Min(BufSize, Len(input))
           buf == Take(input, n) \o Zeros(BufSize - n)
       IN  /\ input' = Drop(input, n)
           /\ events' = Append(events, ReadResult(buf, n))
    /\ UNCHANGED <<rendererVars, printerVars, out, fed, cp>>

\* the streams fed to the reader: "hihi..." and a run of invalid bytes 0xFF
InputStreams ==
    {[i \in 1..n |-> IF i % 2 = 1 THEN 104 ELSE 105] : n \in 0..MaxInput}
    \cup {[i \in 1..n |-> 255] : n \in 0..MaxInput}

----------------------------------------------------------------------------
(* calculate_position as an operation of the StreamWriter *)

StartPositions == [row : 0..MaxRow, col : 0..MaxCols]

CalculatePosition ==
    /\ ~cp.called
    /\ \E s \in TextsUpTo(MaxLen), orig \in StartPositions :
          cp' = [called |-> TRUE, s |-> s, orig |-> orig,
                 res |-> calculate_position(s, orig, cols)]
    /\ UNCHANGED <<rendererVars, printerVars, readerVars, out>>

----------------------------------------------------------------------------
(* Specifications *)

\* StreamWriter::new with the window size the environment reports, an idle
\* printer, no input
InitWith(sizes, styles, streams) ==
    /\ \E size \in sizes : cols = size[1] /\ rows = size[2]
    /\ bell_style \in styles
    /\ buffer = <<>>
    /\ stream = <<>>
    /\ out = <<>>
    /\ rpc = "idle"
    /\ rcall = NoCall
    /\ rres = "none"
    /\ nops = 0
    /\ ppc = "idle"
    /\ prem = <<>>
    /\ pres = "none"
    /\ nprints = 0
    /\ fed \in streams
    /\ input = fed
    /\ events = <<>>
    /\ cp = NoCp

\* the Renderer alone: the editing loop's calls, one after the other
Init == InitWith(WinSizes, BellStyles, {<<>>})

Next ==
    \/ \E old \in Positions, new \in Positions : move_cursor(old, new)
    \/ \E prompt \in Prompts, hint \in Hints : refresh_line(prompt, hint)
    \/ \E length \in 0..MaxCount : clear(length, [row |-> 0, col |-> 0])
    \/ clear_screen
    \/ \E layout \in Layouts : clear_rows(layout)
    \/ beep
    \/ move_cursor_at_leftmost
    \/ update_size
    \/ FlushWrite
    \/ FlushDone
    \/ FlushFail

Spec == Init /\ [][Next]_vars

\* the Renderer and the External Printer, each on its own thread, on the
\* shared destination
Origin == [row |-> 0, col |-> 0]

InitConc == InitWith({<<FixedCols, FixedRows>>}, {"Audible"}, {<<>>})

NextConc ==
    \/ move_cursor(Origin, Origin)
    \/ \E prompt \in Prompts, hint \in Hints : refresh_line(prompt, hint)
    \/ clear(1, Origin)
    \/ clear_screen
    \/ clear_rows([start |-> Origin, end |-> Origin])
    \/ beep
    \/ move_cursor_at_leftmost
    \/ FlushWrite
    \/ FlushDone
    \/ FlushFail
    \/ \E msg \in PrintMsgs : print(msg)
    \/ PrintWrite
    \/ PrintFail
    \/ PrintFlush

SpecConc == InitConc /\ [][NextConc]_vars

\* the Input Event Reader on a finite input stream
InitRead == InitWith({<<FixedCols, FixedRows>>}, {"None"}, InputStreams)

NextRead == wait_for_input

SpecRead == InitRead /\ [][NextRead]_vars

\* calculate_position on a writer of a given width
InitPos == InitWith({<<c, FixedRows>> : c \in 1..MaxCols}, {"None"}, {<<>>})

NextPos == CalculatePosition

SpecPos == InitPos /\ [][NextPos]_vars

----------------------------------------------------------------------------
(* Properties *)

\* the renderer's last call was op and it returned success
Returned(op) == rpc = "idle" /\ rres = "Ok" /\ rcall.op = op

\* the bytes of the renderer's last call that reached the destination
Delivered == Filter(out, nops)

ClearLine == <<ESC, "[", "K", "LF">>

\* C1: for a layout with start.row <= end.row, a successful clear_rows has
\* written exactly end.row - start.row + 1 clear-line sequences (ESC[K then
\* newline) and no other bytes.
C1_ClearRowsStartToEnd ==
    (Returned("clear_rows")
        /\ rcall.args.layout.start.row <= rcall.args.layout.end.row)
    => Delivered = Repeat(ClearLine, rcall.args.layout.end.row
                                       - rcall.args.layout.start.row + 1)

\* C2: on an input stream of n bytes, 1 <= n <= 128, then end-of-stream, the
\* first wait_for_input returns ExternalPrint of exactly those n bytes decoded
\* and the second returns End-of-Input; a call returns End-of-Input exactly
\* when its read returned zero bytes.
C2_ReadThenEof ==
    /\ (Len(fed) >= 1 /\ Len(fed) <= BufSize /\ Len(events) >= 1)
       => /\ events[1].kind = "ExternalPrint"
          /\ events[1].text = from_utf8_lossy(fed)
    /\ (Len(fed) >= 1 /\ Len(fed) <= BufSize /\ Len(events) >= 2)
       => events[2].kind = "Eof"
    /\ \A i \in 1..Len(events) : (events[i].kind = "Eof") <=> (events[i].n = 0)

MotionLetters == {"A", "B", "C", "D"}

HasZeroCount(msg) ==
    \E i \in 1..Len(msg) :
        /\ i + 3 <= Len(msg)
        /\ msg[i] = ESC
        /\ msg[i + 1] = "["
        /\ msg[i + 2] = "0"
        /\ msg[i + 3] \in MotionLetters

\* C3: move_cursor never writes a motion code with a count of 0.
C3_NoZeroCount ==
    Returned("move_cursor") => ~HasZeroCount(Delivered)

\* C4 as stated: for every position p, the terminal width as column included,
\* calculate_position("", p) returns p.
C4_EmptyTextAnyPosition ==
    (cp.called /\ cp.s = <<>>) => cp.res = cp.orig

\* C4 amended: calculate_position("", p) returns p when p.col is not the
\* terminal width, and {row: p.row + 1, col: 0} when p.col is the terminal
\* width.
C4_EmptyText ==
    (cp.called /\ cp.s = <<>>)
    => IF cp.orig.col = cols
       THEN cp.res = [row |-> cp.orig.row + 1, col |-> 0]
       ELSE cp.res = cp.orig

C4_Witness ==
    /\ cp.called /\ cp.s = <<>>
    /\ cp.orig.col > 0 /\ cp.orig.col < cols
    /\ cp.res = cp.orig

\* C5: at the destination the bytes of one message are never interleaved with
\* the bytes of another: each message is one contiguous run.
C5_NoInterleaving ==
    \A i \in 1..Len(out) : \A k \in i..Len(out) :
        out[i].m = out[k].m => \A j \in i..k : out[j].m = out[i].m

\* C6: in every reachable state of the StreamWriter get_columns is 80 and
\* get_rows is 24.
C6_FixedDimensions ==
    get_columns = 80 /\ get_rows = 24

OutputOps == {"move_cursor", "refresh_line", "clear", "clear_screen", "clear_rows",
              "move_cursor_at_leftmost", "beep"}

\* C7: when an output operation of the Renderer returns success, the stream
\* has been flushed, nothing is left in the buffered sink, and a successful
\* refresh_line has delivered prompt followed by the hint.
C7_WrittenAndFlushed ==
    (rpc = "idle" /\ rres = "Ok" /\ rcall.op \in OutputOps)
    => /\ stream = <<>>
       /\ rcall.op = "refresh_line"
          => Delivered = rcall.args.prompt \o
                (IF rcall.args.hint.some THEN rcall.args.hint.text ELSE <<>>)

IsDigits(ds) == Len(ds) >= 1 /\ \A i \in 1..Len(ds) : \E d \in 1..10 : Digits[d] = ds[i]

DigitVal(d) == (CHOOSE k \in 1..10 : Digits[k] = d) - 1

RECURSIVE ParseNum(_)
ParseNum(ds) ==
    IF Len(ds) = 1 THEN DigitVal(ds[1])
    ELSE 10 * ParseNum(Take(ds, Len(ds) - 1)) + DigitVal(Last(ds))

\* code is ESC [ <decimal n> <letter>
IsCode(code, n, letter) ==
    /\ Len(code) >= 4
    /\ code[1] = ESC
    /\ code[2] = "["
    /\ IsDigits(SubSeq(code, 3, Len(code) - 1))
    /\ ParseNum(SubSeq(code, 3, Len(code) - 1)) = n
    /\ Last(code) = letter

\* msg is one vertical code followed by one horizontal code, as C8 gives them
IsMove(msg, old, new) ==
    \E cut \in 1..Len(msg) :
        /\ IF new.row > old.row
           THEN IsCode(Take(msg, cut), new.row - old.row, "B")
           ELSE IsCode(Take(msg, cut), old.row - new.row, "A")
        /\ IF new.col > old.col
           THEN IsCode(Drop(msg, cut), new.col - old.col, "C")
           ELSE IsCode(Drop(msg, cut), old.col - new.col, "D")

\* C8: move_cursor writes exactly one vertical code followed by exactly one
\* horizontal code and nothing else: down n (ESC[nB), n = new.row - old.row,
\* when new.row > old.row and otherwise up n (ESC[nA), n = old.row - new.row;
\* forward m (ESC[mC), m = new.col - old.col, when new.col > old.col and
\* otherwise backward m (ESC[mD), m = old.col - new.col.
C8_VerticalThenHorizontal ==
    Returned("move_cursor") => IsMove(Delivered, rcall.args.old, rcall.args.new)

C8_Witness ==
    /\ Returned("move_cursor")
    /\ rcall.args.old = [row |-> 2, col |-> 5]
    /\ rcall.args.new = [row |-> 0, col |-> 0]
    /\ Delivered = <<ESC, "[", "2", "A", ESC, "[", "5", "D">>

\* C9: for a start position with col < cols and clusters of width 0, 1 or 2,
\* the position calculate_position returns has col < cols.
C9_ColBelowWidth ==
    (cp.called /\ cp.orig.col < cols) => cp.res.col < cols

\* C10: calculate_position adds 1 to row for every cluster, line terminator
\* or not; before the final wrap col is 0 if the last cluster is a line
\* terminator, else the width of the last cluster alone; the final wrap
\* (col = 0, row + 1) is applied only when that col is the terminal width.
\* Text of k >= 1 line terminators yields {row: start.row + k, col: 0}.
C10_RowPerCluster ==
    (cp.called /\ Len(cp.s) >= 1)
    => LET c    == Len(cp.s)
           last == cp.s[c]
           col  == IF last = Newline THEN 0 ELSE Width(last)
       IN  /\ cp.res = IF col = cols
                       THEN [row |-> cp.orig.row + c + 1, col |-> 0]
                       ELSE [row |-> cp.orig.row + c, col |-> col]
           /\ (\A i \in 1..c : cp.s[i] = Newline)
              => cp.res = [row |-> cp.orig.row + c, col |-> 0]

C10_Witness ==
    /\ cp.called
    /\ Len(cp.s) >= 2
    /\ cp.s[1] = "W"
    /\ Last(cp.s) = "a"
    /\ cp.orig.col = 1
    /\ cols = 3
    /\ cp.res = [row |-> cp.orig.row + Len(cp.s), col |-> 1]

====
